---- MODULE Spec2Model ----
(***************************************************************************)
(* State-machine model of app.py, a Streamlit page that loads a pickled    *)
(* regression model once per process (st.cache_resource), renders fifteen  *)
(* input widgets and, on a click of the predict button, hands one row in   *)
(* the order of required_features to model.predict.                        *)
(*                                                                         *)
(* One action is one page run: Streamlit executes the whole script from    *)
(* top to bottom whenever a session opens the page, a widget value changes *)
(* or the button is clicked.  The artifact file on disk is the environment *)
(* and may change between page runs.                                       *)
(*                                                                         *)
(* Representation: column names are written with the ASCII field names of  *)
(* the data model (type, is_adapted, ...) in place of the Chinese labels   *)
(* of the source; slider floats are counted in hundredths (0.37 is 37);    *)
(* a prediction is counted in hundredths as well.                          *)
(***************************************************************************)
EXTENDS Integers, Sequences, FiniteSets

(* ----------------------------- bounds ---------------------------------- *)

\* number of widgets that differ from their initial values at one time
MaxChanged == 1

(* ------------------------ constants of the source ---------------------- *)

MODEL_FILENAME == "random_forest_model.pkl"

\* faulty variant: two neighbouring columns listed in the wrong order
required_features_swapped ==
    << "type", "is_adapted", "air_time", "is_exclusive", "origin",
       "episode_count", "coins", "likes", "collects", "shares",
       "topic_0", "topic_1", "topic_2", "topic_3", "topic_4" >>

required_features ==
    << "type", "is_adapted", "air_time", "is_exclusive", "origin",
       "episode_count", "likes", "coins", "collects", "shares",
       "topic_0", "topic_1", "topic_2", "topic_3", "topic_4" >>

type_options ==
    [k \in {1, 2, 3, 4, 5} |->
        CASE k = 1 -> "children_education"
          [] k = 2 -> "fantasy_adventure"
          [] k = 3 -> "emotional_life"
          [] k = 4 -> "suspense_thriller"
          [] k = 5 -> "art_history"]

adapted_options == [k \in {0, 1} |-> IF k = 0 THEN "no" ELSE "yes"]

air_time_options == [k \in {0, 1} |-> IF k = 0 THEN "non_holiday" ELSE "holiday"]

exclusive_options == [k \in {0, 1} |-> IF k = 0 THEN "no" ELSE "yes"]

origin_options ==
    [k \in {1, 2, 3} |->
        CASE k = 1 -> "japan" [] k = 2 -> "usa" [] k = 3 -> "china"]

\* "no maximum" of a number_input created without max_value
NoMax == -1

\* the selectbox widgets: the variable each one is bound to and its options
\* (options = list(d.keys()); the first option is the initial selection)
SelectBoxes ==
    [ type_val      |-> DOMAIN type_options,
      adapted_val   |-> DOMAIN adapted_options,
      air_time_val  |-> DOMAIN air_time_options,
      exclusive_val |-> DOMAIN exclusive_options,
      origin_val    |-> DOMAIN origin_options ]

\* faulty variant: the episode count may be 0
NumberInputs_min0 ==
    [ episodes_val |-> [min_value |-> 0, max_value |-> 500,   value |-> 12],
      likes_val    |-> [min_value |-> 0, max_value |-> NoMax, value |-> 50000],
      coins_val    |-> [min_value |-> 0, max_value |-> NoMax, value |-> 20000],
      collects_val |-> [min_value |-> 0, max_value |-> NoMax, value |-> 10000],
      shares_val   |-> [min_value |-> 0, max_value |-> NoMax, value |-> 5000] ]

\* the number_input widgets: min_value, max_value, value
NumberInputs ==
    [ episodes_val |-> [min_value |-> 1, max_value |-> 500,   value |-> 12],
      likes_val    |-> [min_value |-> 0, max_value |-> NoMax, value |-> 50000],
      coins_val    |-> [min_value |-> 0, max_value |-> NoMax, value |-> 20000],
      collects_val |-> [min_value |-> 0, max_value |-> NoMax, value |-> 10000],
      shares_val   |-> [min_value |-> 0, max_value |-> NoMax, value |-> 5000] ]

\* the slider widgets, in hundredths: min_value 0.0, max_value 1.0,
\* value 0.1, step 0.01
Sliders ==
    [ n \in {"topic_0_val", "topic_1_val", "topic_2_val", "topic_3_val",
             "topic_4_val"} |->
        [min_value |-> 0, max_value |-> 100, value |-> 10, step |-> 1] ]

Min(S) == CHOOSE x \in S : \A y \in S : x <= y

\* the values the widgets hold when a session opens the page
WidgetDefaults ==
    [ type_val      |-> Min(SelectBoxes.type_val),
      adapted_val   |-> Min(SelectBoxes.adapted_val),
      air_time_val  |-> Min(SelectBoxes.air_time_val),
      exclusive_val |-> Min(SelectBoxes.exclusive_val),
      origin_val    |-> Min(SelectBoxes.origin_val),
      episodes_val  |-> NumberInputs.episodes_val.value,
      likes_val     |-> NumberInputs.likes_val.value,
      coins_val     |-> NumberInputs.coins_val.value,
      collects_val  |-> NumberInputs.collects_val.value,
      shares_val    |-> NumberInputs.shares_val.value,
      topic_0_val   |-> Sliders["topic_0_val"].value,
      topic_1_val   |-> Sliders["topic_1_val"].value,
      topic_2_val   |-> Sliders["topic_2_val"].value,
      topic_3_val   |-> Sliders["topic_3_val"].value,
      topic_4_val   |-> Sliders["topic_4_val"].value ]

(* --------------------------- inputs ------------------------------------ *)

\* what the artifact path holds on disk
FileStates == {"missing", "unreadable", "valid", "truncated", "dangling"}

\* numbers a user types into a number_input: the ends of its range and the
\* numbers just outside them
TypedNumbers(name) ==
    LET lo == NumberInputs[name].min_value
        hi == NumberInputs[name].max_value
    IN  {lo - 1, lo} \cup (IF hi = NoMax THEN {} ELSE {hi, hi + 1})

\* positions a user drags a slider to (steps from min_value)
SliderSteps == {0, 100, 101}

\* what the loaded artifact's predict does with a row: returns a one-element
\* array holding a number, raises, returns an empty array, or returns an
\* array whose element is not a number
PredictOutcomes ==
    { [kind |-> "value", v |-> 123456789],
      [kind |-> "raises", v |-> 0], [kind |-> "empty", v |-> 0],
      [kind |-> "nonnumeric", v |-> 0] }

(* --------------------------- exceptions -------------------------------- *)

\* the part of Python's exception hierarchy the script can meet
Parent(cls) ==
    CASE cls = "FileNotFoundError" -> "OSError"
      [] cls = "PermissionError"   -> "OSError"
      [] cls = "OSError"           -> "Exception"
      [] cls = "EOFError"          -> "Exception"
      [] cls = "ValueError"        -> "Exception"
      [] cls = "TypeError"         -> "Exception"
      [] cls = "IndexError"        -> "LookupError"
      [] cls = "KeyError"          -> "LookupError"
      [] cls = "LookupError"       -> "Exception"
      [] cls = "Exception"         -> "BaseException"
      [] OTHER                     -> "object"

RECURSIVE IsSubclass(_, _)
IsSubclass(cls, base) ==
    IF cls = base THEN TRUE
    ELSE IF cls = "object" THEN FALSE
    ELSE IsSubclass(Parent(cls), base)

Exc(cls, msg) == [cls |-> cls, msg |-> msg]

NoExc == Exc("none", "")

\* `except base:` matches e
Catches(base, e) == e # NoExc /\ IsSubclass(e.cls, base)

Fault(phase, e) == [phase |-> phase, exc |-> e]

(* ------------------------- rendered elements ---------------------------- *)

\* one Streamlit element: the call that made it, what it shows, and the text
\* interpolated into it
El(el, what, arg) == [el |-> el, what |-> what, arg |-> arg]

HasEl(p, el, what) == \E i \in 1..Len(p) : p[i].el = el /\ p[i].what = what

(* --------------------------- load_model -------------------------------- *)

None == [id |-> 0]

\* open(filename, 'rb')
Open(fs) ==
    CASE fs = "missing" ->
            [ok |-> FALSE, exc |-> Exc("FileNotFoundError", "no such file: artifact")]
      [] fs = "unreadable" ->
            [ok |-> FALSE, exc |-> Exc("PermissionError", "permission denied")]
      [] OTHER -> [ok |-> TRUE, exc |-> NoExc]

\* pickle.load(file): unpickling runs the reconstruction code the stream
\* names, so it may raise any exception, one of FileNotFoundError included
\* (a pickled object that reopens a file of its own that is absent)
PickleLoad(fs, newId) ==
    CASE fs = "valid" -> [ok |-> TRUE, value |-> [id |-> newId], exc |-> NoExc]
      [] fs = "truncated" ->
            [ok |-> FALSE, value |-> None, exc |-> Exc("EOFError", "ran out of input")]
      [] OTHER ->
            [ok |-> FALSE, value |-> None,
             exc |-> Exc("FileNotFoundError", "no such file: sidecar")]

\* the except clauses of load_model
load_model_except(filename, phase, e) ==
    IF Catches("FileNotFoundError", e)
    THEN [value |-> None, out |-> <<El("error", "model_not_found", <<filename>>)>>,
          faults |-> <<Fault(phase, e)>>, raised |-> NoExc]
    ELSE IF Catches("Exception", e)
    THEN [value |-> None, out |-> <<El("error", "model_load_failed", <<e.msg>>)>>,
          faults |-> <<Fault(phase, e)>>, raised |-> NoExc]
    ELSE [value |-> None, out |-> <<>>, faults |-> <<Fault(phase, e)>>, raised |-> e]

\* the body of load_model(filename), run against the content fs of the path
load_model(filename, fs, newId) ==
    LET o == Open(fs)
        p == PickleLoad(fs, newId)
    IN  IF ~o.ok THEN load_model_except(filename, "open", o.exc)
        ELSE IF ~p.ok THEN load_model_except(filename, "pickle.load", p.exc)
        ELSE [value |-> p.value, out |-> <<El("success", "model_loaded", <<>>)>>,
              faults |-> <<>>, raised |-> NoExc]

NoEntry == [full |-> FALSE, value |-> None]

\* @st.cache_resource: the body runs when the cache holds no entry for the
\* argument and its return value (None included) is stored; a later call
\* returns the stored object.  A body that raises stores nothing.
CacheMiss(c, r) ==
    [cache |-> IF r.raised = NoExc THEN [full |-> TRUE, value |-> r.value] ELSE c,
     value |-> r.value, out |-> r.out, faults |-> r.faults,
     raised |-> r.raised, executed |-> TRUE]

\* faulty variant: load_model without the decorator, its body run by every call
cache_resource_off(c, filename, fs, newId) ==
    CacheMiss(c, load_model(filename, fs, newId))

cache_resource(c, filename, fs, newId) ==
    IF c.full
    THEN [cache |-> c, value |-> c.value, out |-> <<>>, faults |-> <<>>,
          raised |-> NoExc, executed |-> FALSE]
    ELSE CacheMiss(c, load_model(filename, fs, newId))

ModelState(c) ==
    IF ~c.full THEN "Unloaded" ELSE IF c.value = None THEN "Failed" ELSE "Loaded"

(* ----------------------- the row handed to predict ---------------------- *)

\* faulty variant: the likes column filled from the coins widget
input_data_swapped(w) ==
    << <<"type", w.type_val>>,
       <<"is_adapted", w.adapted_val>>,
       <<"air_time", w.air_time_val>>,
       <<"is_exclusive", w.exclusive_val>>,
       <<"origin", w.origin_val>>,
       <<"episode_count", w.episodes_val>>,
       <<"likes", w.coins_val>>,
       <<"coins", w.coins_val>>,
       <<"collects", w.collects_val>>,
       <<"shares", w.shares_val>>,
       <<"topic_0", w.topic_0_val>>,
       <<"topic_1", w.topic_1_val>>,
       <<"topic_2", w.topic_2_val>>,
       <<"topic_3", w.topic_3_val>>,
       <<"topic_4", w.topic_4_val>> >>

\* input_data: the mapping from column name to widget value, as the list of
\* its items in insertion order
input_data(w) ==
    << <<"type", w.type_val>>,
       <<"is_adapted", w.adapted_val>>,
       <<"air_time", w.air_time_val>>,
       <<"is_exclusive", w.exclusive_val>>,
       <<"origin", w.origin_val>>,
       <<"episode_count", w.episodes_val>>,
       <<"likes", w.likes_val>>,
       <<"coins", w.coins_val>>,
       <<"collects", w.collects_val>>,
       <<"shares", w.shares_val>>,
       <<"topic_0", w.topic_0_val>>,
       <<"topic_1", w.topic_1_val>>,
       <<"topic_2", w.topic_2_val>>,
       <<"topic_3", w.topic_3_val>>,
       <<"topic_4", w.topic_4_val>> >>

\* pd.DataFrame([d]): one row, its columns in the key order of d
DataFrame(items) ==
    [ columns |-> [i \in 1..Len(items) |-> items[i][1]],
      row     |-> [i \in 1..Len(items) |-> items[i][2]] ]

Position(seq, x) == CHOOSE i \in 1..Len(seq) : seq[i] = x

\* df[names]: the columns called names, in the order of names; KeyError when
\* a name is no column of df
Select(df, names) ==
    LET absent == {i \in 1..Len(names) :
                      \A j \in 1..Len(df.columns) : df.columns[j] # names[i]}
    IN  IF absent # {}
        THEN [ok |-> FALSE, df |-> df, exc |-> Exc("KeyError", "not in index")]
        ELSE [ok |-> TRUE,
              df |-> [ columns |-> names,
                       row |-> [i \in 1..Len(names) |->
                                   df.row[Position(df.columns, names[i])]] ],
              exc |-> NoExc]

(* ---------------------- formatting of the result ----------------------- *)

Digit(d) == <<"0", "1", "2", "3", "4", "5", "6", "7", "8", "9">>[d + 1]

RECURSIVE Digits(_)
Digits(n) == IF n < 10 THEN <<Digit(n)>> ELSE Digits(n \div 10) \o <<Digit(n % 10)>>

\* exactly three digits of n < 1000
Pad3(n) == <<Digit(n \div 100), Digit((n \div 10) % 10), Digit(n % 10)>>

RECURSIVE Grouped(_)
Grouped(n) ==
    IF n < 1000 THEN Digits(n)
    ELSE Grouped(n \div 1000) \o <<",">> \o Pad3(n % 1000)

\* f"{x:,.2f}" of a non-negative x given in hundredths
Format2f(v) ==
    Grouped(v \div 100) \o <<".">> \o <<Digit((v \div 10) % 10), Digit(v % 10)>>

(* ------------------------------ the page ------------------------------- *)

NoOutcome == [kind |-> "none", v |-> 0]

\* lines 69-75: the title and the introduction, whose last sentence says
\* that the model file has been loaded
Intro ==
    << El("title", "app_title", <<>>),
       El("write", "intro_model_file_loaded", <<MODEL_FILENAME>>) >>

\* faulty variant: the form rendered whatever load_model returned
FormGuard_always(model) == TRUE

\* `if model is not None:` of line 77
FormGuard(model) == model # None

\* `if model is not None:` of line 138
PredictGuard(model) == model # None

\* lines 78-136: header, the three columns of widgets, the divider
Form ==
    << El("header", "fill_in_features", <<>>),
       El("subheader", "basic_information", <<>>),
       El("selectbox", "type_val", <<>>),
       El("selectbox", "adapted_val", <<>>),
       El("selectbox", "air_time_val", <<>>),
       El("selectbox", "exclusive_val", <<>>),
       El("selectbox", "origin_val", <<>>),
       El("subheader", "metrics", <<>>),
       El("number_input", "episodes_val", <<>>),
       El("number_input", "likes_val", <<>>),
       El("number_input", "coins_val", <<>>),
       El("number_input", "collects_val", <<>>),
       El("number_input", "shares_val", <<>>),
       El("subheader", "topic_weights", <<>>),
       El("slider", "topic_0_val", <<>>),
       El("slider", "topic_1_val", <<>>),
       El("slider", "topic_2_val", <<>>),
       El("slider", "topic_3_val", <<>>),
       El("slider", "topic_4_val", <<>>),
       El("markdown", "divider", <<>>) >>

Button == <<El("button", "predict", <<>>)>>

\* lines 176-209
Footer ==
    << El("markdown", "divider", <<>>),
       El("markdown", "feature_notes", <<>>),
       El("markdown", "footer", <<>>) >>

\* one section's effect: what it rendered, the calls of model.predict it
\* made, the exceptions raised in it, and the exception that left it
Effect(out, calls, faults, raised) ==
    [out |-> out, calls |-> calls, faults |-> faults, raised |-> raised]

\* faulty variant: `except ValueError as e:`
predict_except_narrow(out, calls, phase, e) ==
    IF Catches("ValueError", e)
    THEN Effect(out \o <<El("error", "prediction_failed", <<e.msg>>)>>, calls,
                <<Fault(phase, e)>>, NoExc)
    ELSE Effect(out, calls, <<Fault(phase, e)>>, e)

\* the except clause of line 170
predict_except(out, calls, phase, e) ==
    IF Catches("Exception", e)
    THEN Effect(out \o <<El("error", "prediction_failed", <<e.msg>>)>>, calls,
                <<Fault(phase, e)>>, NoExc)
    ELSE Effect(out, calls, <<Fault(phase, e)>>, e)

\* faulty variant: a prediction that raises is attempted a second time
predict_try_retry(model, input_df, outcome) ==
    IF outcome.kind = "raises"
    THEN predict_except(<<>>,
                        << [model |-> model, columns |-> input_df.columns,
                            row |-> input_df.row],
                           [model |-> model, columns |-> input_df.columns,
                            row |-> input_df.row] >>,
                        "predict", Exc("ValueError", "feature mismatch"))
    ELSE Effect(<<El("balloons", "balloons", <<>>),
                  El("success", "prediction", Format2f(outcome.v)),
                  El("write", "prediction_note", <<>>)>>,
                << [model |-> model, columns |-> input_df.columns,
                    row |-> input_df.row] >>, <<>>, NoExc)

\* the try block of lines 163-171 for the frame input_df
predict_try(model, input_df, outcome) ==
    LET calls == << [model |-> model, columns |-> input_df.columns,
                     row |-> input_df.row] >>
        balloons == <<El("balloons", "balloons", <<>>)>>
    IN  CASE outcome.kind = "raises" ->
               predict_except(<<>>, calls, "predict",
                              Exc("ValueError", "feature mismatch"))
          [] outcome.kind = "empty" ->
               predict_except(balloons, calls, "format",
                              Exc("IndexError", "index 0 is out of bounds"))
          [] outcome.kind = "nonnumeric" ->
               predict_except(balloons, calls, "format",
                              Exc("ValueError", "unknown format code f"))
          [] OTHER ->
               Effect(balloons
                        \o <<El("success", "prediction", Format2f(outcome.v)),
                             El("write", "prediction_note", <<>>)>>,
                      calls, <<>>, NoExc)

\* lines 159-171: input_df = pd.DataFrame([input_data])[required_features],
\* built outside the try block, then the try block
PredictWith(model, sel, outcome) ==
    IF ~sel.ok
    THEN Effect(<<>>, <<>>, <<Fault("build", sel.exc)>>, sel.exc)
    ELSE predict_try(model, sel.df, outcome)

\* lines 138-173: what a click of the button runs
PredictSection(model, w, outcome) ==
    IF PredictGuard(model)
    THEN PredictWith(model, Select(DataFrame(input_data(w)), required_features),
                     outcome)
    ELSE Effect(<<El("warning", "model_not_loaded", <<>>)>>, <<>>, <<>>, NoExc)

\* faulty variant: the block of the button run by every page run
button_always(clicked) == TRUE

\* st.button: True in the page run that the click triggered, False otherwise
button(clicked) == clicked

\* lines 69-209: the page below the call of load_model
\* the page around the effect s of the button's block: an exception that
\* leaves the block ends the script, so the footer is not rendered
AfterButton(s) ==
    IF s.raised # NoExc
    THEN Effect(Intro \o Form \o Button \o s.out, s.calls, s.faults, s.raised)
    ELSE Effect(Intro \o Form \o Button \o s.out \o Footer, s.calls, s.faults,
                NoExc)

Page(model, w, clicked, outcome) ==
    IF FormGuard(model)
    THEN IF button(clicked)
         THEN AfterButton(PredictSection(model, w, outcome))
         ELSE Effect(Intro \o Form \o Button \o Footer, <<>>, <<>>, NoExc)
    ELSE Effect(Intro \o Footer, <<>>, <<>>, NoExc)

\* the script after `model = load_model(MODEL_FILENAME)` returned l
AfterLoad(l, p) ==
    [cache |-> l.cache, executed |-> l.executed, out |-> l.out \o p.out,
     calls |-> p.calls, faults |-> l.faults \o p.faults, raised |-> p.raised]

ScriptFrom(l, w, clicked, outcome) ==
    IF l.raised # NoExc
    THEN [cache |-> l.cache, executed |-> l.executed, out |-> l.out,
          calls |-> <<>>, faults |-> l.faults, raised |-> l.raised]
    ELSE AfterLoad(l, Page(l.value, w, clicked, outcome))

\* the whole script, lines 1-209, for one page run
Script(c, fs, newId, w, clicked, outcome) ==
    ScriptFrom(cache_resource(c, MODEL_FILENAME, fs, newId), w, clicked, outcome)

ButtonShown(p) == HasEl(p, "button", "predict")

WidgetShown(p, el, name) == HasEl(p, el, name)

(* ------------------------------ state ---------------------------------- *)

VARIABLES
    file,       \* what the path MODEL_FILENAME holds on disk
    cache,      \* the st.cache_resource entry of load_model(MODEL_FILENAME)
    loads,      \* how many times the body of load_model has run
    widgets,    \* the session's widget values
    page,       \* the elements the last page run rendered
    calls,      \* the calls of model.predict the last page run made
    faults,     \* the exceptions raised during the last page run
    uncaught,   \* the exception that left the script in the last page run
    trigger,    \* the interaction that caused the last page run
    accepted    \* boundary values that have reached model.predict so far

vars == << file, cache, loads, widgets, page, calls, faults, uncaught, trigger,
           accepted >>

\* the boundary values of the data model present in a row of predict
Boundaries(row) ==
    {t \in {"episode_count=1", "episode_count=500", "topic=0.0", "topic=1.0"} :
        \/ t = "episode_count=1" /\ row[6] = 1
        \/ t = "episode_count=500" /\ row[6] = 500
        \/ t = "topic=0.0" /\ \E i \in 11..15 : row[i] = 0
        \/ t = "topic=1.0" /\ \E i \in 11..15 : row[i] = 100}

Init ==
    /\ file \in FileStates
    /\ cache = NoEntry
    /\ loads = 0
    /\ widgets = WidgetDefaults
    /\ page = <<>>
    /\ calls = <<>>
    /\ faults = <<>>
    /\ uncaught = NoExc
    /\ trigger = "none"
    /\ accepted = {}

\* the state a page run with the result r leaves
Finish(r, w, trig) ==
    /\ cache' = r.cache
    /\ loads' = IF r.executed THEN loads + 1 ELSE loads
    /\ widgets' = w
    /\ page' = r.out
    /\ calls' = r.calls
    /\ faults' = r.faults
    /\ uncaught' = r.raised
    /\ trigger' = trig
    /\ accepted' = accepted \cup
                     UNION {Boundaries(r.calls[i].row) : i \in 1..Len(r.calls)}
    /\ UNCHANGED file

\* one execution of the script with the widget values w
Run(w, clicked, outcome, trig) ==
    Finish(Script(cache, file, loads + 1, w, clicked, outcome), w, trig)

\* a session opens (or reloads) the page: its widgets start at their defaults
OpenPage ==
    Run(WidgetDefaults, FALSE, NoOutcome, "open")

Changed(w) == {n \in DOMAIN w : w[n] # WidgetDefaults[n]}

\* a widget of the rendered form takes the value v and the script runs again
Change(name, v) ==
    /\ v # widgets[name]
    /\ Cardinality(Changed([widgets EXCEPT ![name] = v])) <= MaxChanged
    /\ Run([widgets EXCEPT ![name] = v], FALSE, NoOutcome, "change")

\* the user picks another option of a selectbox
SelectOption ==
    \E name \in DOMAIN SelectBoxes :
        /\ WidgetShown(page, "selectbox", name)
        /\ \E v \in SelectBoxes[name] : Change(name, v)

\* the user types a number into a number_input; the widget takes it when it
\* lies between min_value and max_value
SetNumber ==
    \E name \in DOMAIN NumberInputs :
        /\ WidgetShown(page, "number_input", name)
        /\ \E v \in TypedNumbers(name) :
              /\ v >= NumberInputs[name].min_value
              /\ NumberInputs[name].max_value # NoMax
                    => v <= NumberInputs[name].max_value
              /\ Change(name, v)

\* the user drags a slider k steps from its minimum
MoveSlider ==
    \E name \in DOMAIN Sliders :
        /\ WidgetShown(page, "slider", name)
        /\ \E k \in SliderSteps :
              /\ Sliders[name].min_value + k * Sliders[name].step
                    <= Sliders[name].max_value
              /\ Change(name, Sliders[name].min_value + k * Sliders[name].step)

\* the user clicks the predict button
ClickPredict ==
    /\ ButtonShown(page)
    /\ \E outcome \in PredictOutcomes : Run(widgets, TRUE, outcome, "click")

\* the environment replaces, removes or creates the artifact file
FileChange ==
    \E f \in FileStates :
        /\ f # file
        /\ file' = f
        /\ UNCHANGED << cache, loads, widgets, page, calls, faults, uncaught,
                        trigger, accepted >>

Next ==
    \/ OpenPage
    \/ SelectOption
    \/ SetNumber
    \/ MoveSlider
    \/ ClickPredict
    \/ FileChange

Spec == Init /\ [][Next]_vars

(* ------------------------------ claims --------------------------------- *)

\* the column order of the data model
FeatureOrder ==
    << "type", "is_adapted", "air_time", "is_exclusive", "origin",
       "episode_count", "likes", "coins", "collects", "shares",
       "topic_0", "topic_1", "topic_2", "topic_3", "topic_4" >>

\* the widget behind each field of the data model, in that order
FieldWidget ==
    << "type_val", "adapted_val", "air_time_val", "exclusive_val", "origin_val",
       "episodes_val", "likes_val", "coins_val", "collects_val", "shares_val",
       "topic_0_val", "topic_1_val", "topic_2_val", "topic_3_val",
       "topic_4_val" >>

\* other orders in which the items of a mapping may have been inserted
Rotated(items, k) ==
    [i \in 1..Len(items) |-> items[((i + k - 1) % Len(items)) + 1]]

Reversed(items) == [i \in 1..Len(items) |-> items[Len(items) + 1 - i]]

KeyOrders(items) ==
    {Rotated(items, k) : k \in {0, 1, Len(items) \div 2, Len(items) - 1}}
        \cup {Reversed(items)}

\* the selection sel succeeded and holds the row
SelectionIs(sel, row) == sel.ok /\ sel.df.row = row

Loaded == ModelState(cache) = "Loaded"

Failed == ModelState(cache) = "Failed"

PredictionShown == HasEl(page, "success", "prediction")

PredictionFailed == HasEl(page, "error", "prediction_failed")

LoadErrorShown ==
    HasEl(page, "error", "model_not_found") \/ HasEl(page, "error", "model_load_failed")

\* C1: the row of every predict call has the 15 columns of the data model in
\* their order, position i holds the value of the widget of field i, and the
\* frame selected by required_features is the same for every insertion order
\* of the input_data mapping.
C1_RowInFeatureOrder ==
    \A c \in 1..Len(calls) :
        /\ Len(calls[c].row) = 15
        /\ calls[c].columns = FeatureOrder
        /\ \A i \in 1..15 : calls[c].row[i] = widgets[FieldWidget[i]]
        /\ \A items \in KeyOrders(input_data(widgets)) :
              SelectionIs(Select(DataFrame(items), required_features), calls[c].row)

\* a predict call whose row distinguishes the likes column from the coins
\* column and the topic columns from one another
C1_Witness ==
    /\ trigger = "click"
    /\ Len(calls) = 1
    /\ calls[1].row[7] = 0
    /\ calls[1].row[8] = 20000

\* C2: the body of load_model runs at most once; it runs in the first page
\* run, which leaves the model Loaded or Failed, and from then on the cached
\* object never changes and the body never runs again.
C2_LoadsOnce ==
    [][ /\ loads' <= 1
        /\ loads' # loads => (~cache.full /\ cache'.full /\ loads = 0)
        /\ (~cache.full /\ page' # page) => (cache'.full /\ loads' = 1)
        /\ cache.full => (cache' = cache /\ loads' = loads) ]_vars

\* a page run in the Failed state that found the cache entry, with a valid
\* artifact on disk by then
C2_Witness ==
    /\ Failed
    /\ file = "valid"
    /\ trigger = "open"
    /\ ~LoadErrorShown

\* C3: predict is called only with a loaded model, and while the model is
\* not Loaded no page run renders the predict button or calls predict.
C3_PredictOnlyWhenLoaded ==
    /\ \A c \in 1..Len(calls) : calls[c].model # None /\ calls[c].model = cache.value
    /\ ~Loaded => (~ButtonShown(page) /\ calls = <<>>)

\* a page rendered while the model is Failed
C3_Witness ==
    /\ Failed
    /\ trigger = "open"
    /\ HasEl(page, "markdown", "footer")

\* C4: no exception leaves the script; an exception raised while loading is
\* on the page as a loading error, one raised while building the row,
\* predicting or formatting as a prediction error; a click ends in exactly
\* one of a rendered number and a rendered prediction error.
C4_NoUncaughtFault ==
    /\ uncaught = NoExc
    /\ \A i \in 1..Len(faults) :
          IF faults[i].phase \in {"open", "pickle.load"}
          THEN LoadErrorShown
          ELSE PredictionFailed
    /\ trigger = "click" => (PredictionShown # PredictionFailed)
    /\ PredictionShown => faults = <<>>

\* a click whose result could not be formatted
C4_Witness ==
    /\ trigger = "click"
    /\ \E i \in 1..Len(faults) : faults[i].phase = "format"
    /\ PredictionFailed

\* C5: a page run in which predict raised rendered the error, called
\* predict once, left the cached model as it was and rendered the button;
\* the click after it calls predict once more with the same model object
\* and ends in a number or an error.
C5_PredictFaultIsolated ==
    [][ /\ (\E i \in 1..Len(faults') : faults'[i].phase = "predict") =>
              /\ HasEl(page', "error", "prediction_failed")
              /\ cache' = cache
              /\ ModelState(cache') = "Loaded"
              /\ Len(calls') = 1
              /\ ButtonShown(page')
              /\ uncaught' = NoExc
        /\ ((\E i \in 1..Len(faults) : faults[i].phase = "predict")
              /\ trigger' = "click" /\ file' = file) =>
              /\ Len(calls') = 1
              /\ calls'[1].model = calls[1].model
              /\ (HasEl(page', "success", "prediction")
                    # HasEl(page', "error", "prediction_failed")) ]_vars

\* a page run in which predict raised
C5_Witness ==
    /\ trigger = "click"
    /\ \E i \in 1..Len(faults) : faults[i].phase = "predict"
    /\ PredictionFailed
    /\ Loaded

\* C6: load_model never raises; a missing file gives the not-found message,
\* every other exception of open or of deserialization gives the message
\* that carries the exception's text, and both return None.
C6_LoadOutcomes ==
    /\ \A i \in 1..Len(faults) :
          faults[i].phase \in {"open", "pickle.load"} =>
              /\ uncaught = NoExc
              /\ Failed
              /\ IF faults[i].phase = "open"
                    /\ faults[i].exc.cls = "FileNotFoundError"
                 THEN /\ HasEl(page, "error", "model_not_found")
                      /\ ~HasEl(page, "error", "model_load_failed")
                 ELSE /\ ~HasEl(page, "error", "model_not_found")
                      /\ \E j \in 1..Len(page) :
                            /\ page[j].el = "error"
                            /\ page[j].what = "model_load_failed"
                            /\ page[j].arg = <<faults[i].exc.msg>>
    /\ HasEl(page, "success", "model_loaded") => Loaded

\* C7: the page run of a click calls predict exactly once, the page run of
\* any other interaction does not call it.
C7_OneCallPerClick ==
    /\ trigger = "click" => Len(calls) = 1
    /\ trigger # "click" => calls = <<>>

\* a click, made after a widget change, that ended in a rendered number
C7_Witness ==
    /\ trigger = "click"
    /\ Len(calls) = 1
    /\ PredictionShown
    /\ widgets # WidgetDefaults

\* C8: whatever was changed and predicted before, the value a predict call
\* receives under each column name is the current value of that column's
\* widget.
C8_RowFromCurrentWidgets ==
    \A c \in 1..Len(calls) :
        \A i \in 1..Len(calls[c].columns) :
            \E j \in 1..15 :
                /\ FeatureOrder[j] = calls[c].columns[i]
                /\ calls[c].row[i] = widgets[FieldWidget[j]]

\* a predict call with 500 episodes after one with 1 episode
C8_Witness ==
    /\ "episode_count=1" \in accepted
    /\ Len(calls) = 1
    /\ calls[1].row[6] = 500

InDomain(row) ==
    /\ row[1] \in {1, 2, 3, 4, 5}
    /\ row[2] \in {0, 1}
    /\ row[3] \in {0, 1}
    /\ row[4] \in {0, 1}
    /\ row[5] \in {1, 2, 3}
    /\ row[6] \in 1..500
    /\ \A i \in 7..10 : row[i] >= 0
    /\ \A i \in 11..15 : row[i] \in 0..100

\* C9: every row handed to predict lies in the domains of the data model.
C9_RowInDomain == \A c \in 1..Len(calls) : InDomain(calls[c].row)

\* predict calls have carried 1 episode, 500 episodes, a topic weight of 0.0
\* and a topic weight of 1.0
C9_Witness ==
    accepted = {"episode_count=1", "episode_count=500", "topic=0.0", "topic=1.0"}

\* C10: the sentence that the model file has been loaded is on the page only
\* while the model is Loaded.
C10_LoadedStatementOnlyWhenLoaded ==
    HasEl(page, "write", "intro_model_file_loaded") => Loaded

====
